---- MODULE Spec2Model ----
(***************************************************************************)
(* Model of scraper.ts (Alexandrina Council development applications):     *)
(* the geometry primitives calculateDistance and isOverlap, the label      *)
(* resolver findClosestElement, the page loop of parsePdf, insertRow and   *)
(* the selection and processing of the documents in main.                  *)
(*                                                                         *)
(* A text is a sequence of characters, each character a one-token string.  *)
(* The three characters of the two mojibake patterns are written "A~"      *)
(* (U+00C3), "1/4" (U+00BC) and "u:" (U+00FC).  Coordinates are integers;  *)
(* calculateDistance returns four times the squared distance, so that the  *)
(* halves of the reference points stay integral.                           *)
(***************************************************************************)
EXTENDS Integers, Sequences, FiniteSets, TLC

VARIABLES
    elements,                 \* the fragments of the page at hand (scraper.ts:153)
    text,                     \* findClosestElement's label argument
    direction,                \* findClosestElement's direction argument
    matchingElement,          \* findClosestElement's anchor (scraper.ts:120)
    result,                   \* what findClosestElement returned
    numPages,                 \* pdf.numPages
    index,                    \* the page loop's counter
    developmentApplications,  \* the records pushed so far
    locals,                   \* the locals of the last loop iteration
    distance,                 \* what calculateDistance returned
    database,                 \* the rows of table data in data.sqlite
    row,                      \* the values insertRow binds to its statement
    before,                   \* the rows of table data when insertRow was called
    pdfUrls,                  \* main's list of the PDF links of the page
    selectedPdfUrls,          \* main's list of the documents to parse
    document,                 \* the place of main's loop in selectedPdfUrls
    application,              \* the place of main's inner loop in the records
    trace,                    \* what main has done so far, in order
    pc                        \* where the program stands

vars == <<elements, text, direction, matchingElement, result,
          numPages, index, developmentApplications, locals,
          distance, database, row, before,
          pdfUrls, selectedPdfUrls, document, application, trace, pc>>

\* the variables of main's loops
mainVars == <<pdfUrls, selectedPdfUrls, document, application, trace>>

\* the variables of insertRow, of a lone call of calculateDistance and of main
otherVars == <<distance, database, row, before, mainVars>>

\* ------------------------------------------------------------ bounds

\* longest fragment list handed to findClosestElement
MaxElements == 3

\* most pages of one document
MaxPages == 2

\* most links of the page that main looks at
MaxLinks == 3

\* ------------------------------------------------------------ values

\* JavaScript's undefined, for an optional element: <<>> or <<element>>
undefined == <<>>

Some(e) == <<e>>

\* Number.MAX_VALUE, the rejection sentinel, and what arithmetic beyond it gives
MAX_VALUE == 10000

Infinity == MAX_VALUE + 1

\* a floating point result: anything beyond Number.MAX_VALUE is Infinity
fl(v) == IF v > MAX_VALUE THEN Infinity ELSE v

Right == "Right"

Down == "Down"

Direction == {Right, Down}

\* ------------------------------------------------------------ text

\* the whitespace characters of the model (JavaScript's \s and trim share one set)
WhiteSpace == {" ", "\t"}

UpperCase ==
    <<"A", "B", "C", "D", "E", "F", "G", "H", "I", "J", "K", "L", "M",
      "N", "O", "P", "Q", "R", "S", "T", "U", "V", "W", "X", "Y", "Z", "A~">>

LowerCase ==
    <<"a", "b", "c", "d", "e", "f", "g", "h", "i", "j", "k", "l", "m",
      "n", "o", "p", "q", "r", "s", "t", "u", "v", "w", "x", "y", "z", "a~">>

\* String.prototype.toLowerCase on one character
toLowerChar(c) ==
    IF \E i \in 1..Len(UpperCase) : UpperCase[i] = c
    THEN LowerCase[CHOOSE i \in 1..Len(UpperCase) : UpperCase[i] = c]
    ELSE c

\* String.prototype.toLowerCase
toLowerCase(s) == [i \in 1..Len(s) |-> toLowerChar(s[i])]

RECURSIVE trimStart(_)
trimStart(s) ==
    IF s = <<>> \/ Head(s) \notin WhiteSpace THEN s ELSE trimStart(Tail(s))

RECURSIVE trimEnd(_)
trimEnd(s) ==
    IF s = <<>> \/ s[Len(s)] \notin WhiteSpace THEN s
    ELSE trimEnd(SubSeq(s, 1, Len(s) - 1))

\* String.prototype.trim
trim(s) == trimEnd(trimStart(s))

\* String.prototype.startsWith
startsWith(s, prefix) ==
    /\ Len(prefix) <= Len(s)
    /\ \A i \in 1..Len(prefix) : s[i] = prefix[i]

\* ------------------------------------------------------------ geometry

\* calculateDistance with a slip: the horizontal term is left out of the sum
calculateDistanceVertical(element1, element2, dir) ==
    IF dir = Right THEN
        LET p1y2 == 2 * element1.y + element1.height
            p2y2 == 2 * element2.y + element2.height
        IN  IF 5 * element2.x < 5 * (element1.x + element1.width) - element1.width
            THEN MAX_VALUE
            ELSE fl((p2y2 - p1y2) * (p2y2 - p1y2))
    ELSE IF dir = Down THEN
        LET p1y2 == 2 * (element1.y + element1.height)
            p2y2 == 2 * element2.y
        IN  IF 2 * element2.y < 2 * (element1.y + element1.height) - element1.height
            THEN MAX_VALUE
            ELSE fl((p2y2 - p1y2) * (p2y2 - p1y2))
    ELSE MAX_VALUE

\* calculateDistance with a slip: the overlap factor of Right is 50%, as Down's
calculateDistanceHalf(element1, element2, dir) ==
    IF dir = Right THEN
        LET p1x2 == 2 * (element1.x + element1.width)
            p1y2 == 2 * element1.y + element1.height
            p2x2 == 2 * element2.x
            p2y2 == 2 * element2.y + element2.height
        IN  IF 2 * element2.x < 2 * (element1.x + element1.width) - element1.width
            THEN MAX_VALUE
            ELSE fl(fl((p2x2 - p1x2) * (p2x2 - p1x2)) + fl((p2y2 - p1y2) * (p2y2 - p1y2)))
    ELSE IF dir = Down THEN
        LET p1x2 == 2 * element1.x + element1.width
            p1y2 == 2 * (element1.y + element1.height)
            ax   == 2 * element2.x + element1.width
            bx   == 2 * (element2.x + element2.width)
            p2x2 == IF ax < bx THEN ax ELSE bx
            p2y2 == 2 * element2.y
        IN  IF 2 * element2.y < 2 * (element1.y + element1.height) - element1.height
            THEN MAX_VALUE
            ELSE fl(fl((p2x2 - p1x2) * (p2x2 - p1x2)) + fl((p2y2 - p1y2) * (p2y2 - p1y2)))
    ELSE MAX_VALUE

\* four times calculateDistance's squared distance (or the sentinel, unscaled)
calculateDistance(element1, element2, dir) ==
    IF dir = Right THEN
        LET p1x2 == 2 * (element1.x + element1.width)
            p1y2 == 2 * element1.y + element1.height
            p2x2 == 2 * element2.x
            p2y2 == 2 * element2.y + element2.height
        IN  IF 5 * element2.x < 5 * (element1.x + element1.width) - element1.width
            THEN MAX_VALUE
            ELSE fl(fl((p2x2 - p1x2) * (p2x2 - p1x2)) + fl((p2y2 - p1y2) * (p2y2 - p1y2)))
    ELSE IF dir = Down THEN
        LET p1x2 == 2 * element1.x + element1.width
            p1y2 == 2 * (element1.y + element1.height)
            ax   == 2 * element2.x + element1.width
            bx   == 2 * (element2.x + element2.width)
            p2x2 == IF ax < bx THEN ax ELSE bx
            p2y2 == 2 * element2.y
        IN  IF 2 * element2.y < 2 * (element1.y + element1.height) - element1.height
            THEN MAX_VALUE
            ELSE fl(fl((p2x2 - p1x2) * (p2x2 - p1x2)) + fl((p2y2 - p1y2) * (p2y2 - p1y2)))
    ELSE MAX_VALUE

\* isOverlap (scraper.ts:108-114)
isOverlap(element1, element2, dir) ==
    IF dir = Right THEN
        /\ element2.y < element1.y + element1.height
        /\ element2.y + element2.height > element1.y
    ELSE IF dir = Down THEN
        /\ element2.x < element1.x + element1.width
        /\ element2.x + element2.width > element1.x
    ELSE FALSE

\* findMatchingFrom with a slip: the last matching element, not the first
RECURSIVE findMatchingLast(_, _, _)
findMatchingLast(elems, label, i) ==
    IF i < 1 \/ i > Len(elems) THEN undefined
    ELSE IF startsWith(toLowerCase(trim(elems[Len(elems) + 1 - i].text)), toLowerCase(label))
         THEN Some(elems[Len(elems) + 1 - i])
         ELSE findMatchingLast(elems, label, i + 1)

\* Array.prototype.find with findClosestElement's predicate: the first element
\* whose trimmed, lower-cased text starts with the lower-cased label
RECURSIVE findMatchingFrom(_, _, _)
findMatchingFrom(elems, label, i) ==
    IF i > Len(elems) THEN undefined
    ELSE IF startsWith(toLowerCase(trim(elems[i].text)), toLowerCase(label))
         THEN Some(elems[i])
         ELSE findMatchingFrom(elems, label, i + 1)

findMatching(elems, label) == findMatchingFrom(elems, label, 1)

\* the text of the initial closestElement: undefined, no string
undefinedText == <<"undefined">>

\* the initial closestElement (scraper.ts:124)
initialClosest ==
    [text |-> undefinedText, x |-> MAX_VALUE, y |-> MAX_VALUE, width |-> 0, height |-> 0]

\* closestFrom with a slip: <= for <, so the last of the closest wins
RECURSIVE closestFromLast(_, _, _, _, _)
closestFromLast(elems, anchor, dir, closestElement, i) ==
    IF i > Len(elems) THEN closestElement
    ELSE IF /\ isOverlap(anchor, elems[i], dir)
            /\ calculateDistance(anchor, elems[i], dir)
                   <= calculateDistance(anchor, closestElement, dir)
         THEN closestFromLast(elems, anchor, dir, elems[i], i + 1)
         ELSE closestFromLast(elems, anchor, dir, closestElement, i + 1)

\* one turn of the loop over the elements (scraper.ts:125-127)
RECURSIVE closestFrom(_, _, _, _, _)
closestFrom(elems, anchor, dir, closestElement, i) ==
    IF i > Len(elems) THEN closestElement
    ELSE IF /\ isOverlap(anchor, elems[i], dir)
            /\ calculateDistance(anchor, elems[i], dir)
                   < calculateDistance(anchor, closestElement, dir)
         THEN closestFrom(elems, anchor, dir, elems[i], i + 1)
         ELSE closestFrom(elems, anchor, dir, closestElement, i + 1)

closestOf(elems, anchor, dir) == closestFrom(elems, anchor, dir, initialClosest, 1)

findClosestElement(elems, label, dir) ==
    LET matching == findMatching(elems, label)
    IN  IF matching = undefined THEN undefined
        ELSE LET closestElement == closestOf(elems, matching[1], dir)
             IN  IF closestElement.text = undefinedText THEN undefined
                 ELSE Some(closestElement)

\* ------------------------------------------------------------ parsePdf: text of the fields

\* replace(/A~1/4/g, " "): the two-character mojibake pattern
RECURSIVE replaceMojibake2(_)
replaceMojibake2(s) ==
    IF s = <<>> THEN <<>>
    ELSE IF Len(s) >= 2 /\ s[1] = "A~" /\ s[2] = "1/4"
         THEN <<" ">> \o replaceMojibake2(SubSeq(s, 3, Len(s)))
         ELSE <<Head(s)>> \o replaceMojibake2(Tail(s))

\* replace(/u:/g, " "): the one-character mojibake pattern
replaceMojibake1(s) == [i \in 1..Len(s) |-> IF s[i] = "u:" THEN " " ELSE s[i]]

\* replace(/\s\s+/g, " "): a run of two or more whitespace characters becomes one space
RECURSIVE collapseWhitespace(_)
collapseWhitespace(s) ==
    IF s = <<>> THEN <<>>
    ELSE IF Len(s) >= 2 /\ s[1] \in WhiteSpace /\ s[2] \in WhiteSpace
         THEN <<" ">> \o collapseWhitespace(trimStart(s))
         ELSE <<Head(s)>> \o collapseWhitespace(Tail(s))

\* the chain applied to house number, street and suburb (scraper.ts:170, 172, 181)
normalizeText(s) == trim(collapseWhitespace(replaceMojibake1(replaceMojibake2(s))))

\* replace(/\s/g, "")
removeWhitespace(s) == SelectSeq(s, LAMBDA c : c \notin WhiteSpace)

\* the labels looked for on every page (scraper.ts:161-166)
ApplicationNo ==
    <<"A", "p", "p", "l", "i", "c", "a", "t", "i", "o", "n", " ", "N", "o">>

DevelopmentDescription ==
    <<"D", "e", "v", "e", "l", "o", "p", "m", "e", "n", "t", " ",
      "D", "e", "s", "c", "r", "i", "p", "t", "i", "o", "n">>

ApplicationReceived ==
    <<"A", "p", "p", "l", "i", "c", "a", "t", "i", "o", "n", " ",
      "r", "e", "c", "e", "i", "v", "e", "d">>

PropertyHouseNo ==
    <<"P", "r", "o", "p", "e", "r", "t", "y", " ", "H", "o", "u", "s", "e", " ", "N", "o">>

PropertyStreet ==
    <<"P", "r", "o", "p", "e", "r", "t", "y", " ", "S", "t", "r", "e", "e", "t">>

PropertySuburb ==
    <<"P", "r", "o", "p", "e", "r", "t", "y", " ", "S", "u", "b", "u", "r", "b">>

\* "NO DESCRIPTION PROVIDED"
NoDescriptionProvided ==
    <<"N", "O", " ", "D", "E", "S", "C", "R", "I", "P", "T", "I", "O", "N", " ",
      "P", "R", "O", "V", "I", "D", "E", "D">>

\* the url argument of parsePdf, CommentUrl, and moment().format("YYYY-MM-DD")
Url == <<"u", "r", "l">>

CommentUrl == <<"m", "a", "i", "l", "t", "o", ":">>

ScrapeDate == <<"2", "0", "1", "9", "-", "0", "3", "-", "0", "1">>

\* ------------------------------------------------------------ parsePdf: the received date

Digits == <<"0", "1", "2", "3", "4", "5", "6", "7", "8", "9">>

IsDigit(c) == \E i \in 1..10 : Digits[i] = c

DigitValue(c) == (CHOOSE i \in 1..10 : Digits[i] = c) - 1

DigitChar(n) == Digits[n + 1]

RECURSIVE NumberOf(_)
NumberOf(s) ==
    IF s = <<>> THEN 0
    ELSE 10 * NumberOf(SubSeq(s, 1, Len(s) - 1)) + DigitValue(s[Len(s)])

isLeapYear(year) == (year % 4 = 0 /\ year % 100 # 0) \/ year % 400 = 0

daysInMonth(year, month) ==
    IF month = 2 THEN (IF isLeapYear(year) THEN 29 ELSE 28)
    ELSE IF month \in {4, 6, 9, 11} THEN 30 ELSE 31

\* moment(s, "D/MM/YYYY", true).isValid(): the whole text is one or two digits,
\* "/", two digits, "/", four digits, and names a day of the calendar
isValidDate(s) ==
    /\ Len(s) \in {9, 10}
    /\ LET dl == Len(s) - 8
       IN  /\ \A i \in 1..Len(s) :
                 IF i \in {dl + 1, dl + 4} THEN s[i] = "/" ELSE IsDigit(s[i])
           /\ LET day   == NumberOf(SubSeq(s, 1, dl))
                  month == NumberOf(SubSeq(s, dl + 2, dl + 3))
                  year  == NumberOf(SubSeq(s, dl + 5, dl + 8))
              IN  /\ month \in 1..12
                  /\ day >= 1
                  /\ day <= daysInMonth(year, month)

\* moment(s, "D/MM/YYYY", true).format("YYYY-MM-DD") of a valid date
formatDate(s) ==
    LET dl    == Len(s) - 8
        day   == NumberOf(SubSeq(s, 1, dl))
        month == NumberOf(SubSeq(s, dl + 2, dl + 3))
        year  == NumberOf(SubSeq(s, dl + 5, dl + 8))
    IN  << DigitChar(year \div 1000), DigitChar((year \div 100) % 10),
           DigitChar((year \div 10) % 10), DigitChar(year % 10), "-",
           DigitChar(month \div 10), DigitChar(month % 10), "-",
           DigitChar(day \div 10), DigitChar(day % 10) >>

\* the record's receivedDate (scraper.ts:203-205, 218)
receivedDateOf(receivedDateElement) ==
    IF receivedDateElement = undefined THEN <<>>
    ELSE IF isValidDate(trim(receivedDateElement[1].text))
         THEN formatDate(trim(receivedDateElement[1].text))
         ELSE <<>>

\* ------------------------------------------------------------ parsePdf: one page

\* SuburbNames as main loads it from suburbnames.txt: "K" -> "K S", "G" -> "G S",
\* "G G" -> "GG S"
SuburbNames ==
    ( <<"K">> :> <<"K", " ", "S">> ) @@
    ( <<"G">> :> <<"G", " ", "S">> ) @@
    ( <<"G", " ", "G">> :> <<"G", "G", " ", "S">> )

\* the address before the suburb is appended (scraper.ts:168-172)
streetAddressOf(houseNumberElement, streetElement) ==
    LET address1 == IF houseNumberElement # undefined
                    THEN normalizeText(houseNumberElement[1].text)
                    ELSE <<>>
    IN  IF streetElement # undefined
        THEN address1 \o (IF address1 = <<>> THEN <<>> ELSE <<" ">>)
                      \o normalizeText(streetElement[1].text)
        ELSE address1

\* hasNoSuburb with a slip: the test for "0" left out
hasNoSuburbNoZero(suburbElement) ==
    \/ suburbElement = undefined
    \/ trim(suburbElement[1].text) = <<>>

\* the condition of the first continue (scraper.ts:173)
hasNoSuburb(suburbElement) ==
    \/ suburbElement = undefined
    \/ trim(suburbElement[1].text) = <<>>
    \/ trim(suburbElement[1].text) = <<"0">>

\* suburbNameOf with a slip: the doubled key is looked for before the key itself
suburbNameDoubledFirst(suburbText) ==
    IF \E known \in DOMAIN SuburbNames : known \o <<" ">> \o known = suburbText
    THEN SuburbNames[CHOOSE known \in DOMAIN SuburbNames :
                         known \o <<" ">> \o known = suburbText]
    ELSE IF suburbText \in DOMAIN SuburbNames THEN SuburbNames[suburbText]
         ELSE suburbText

\* the suburb with state and post code (scraper.ts:182-191)
suburbNameOf(suburbText) ==
    IF suburbText \in DOMAIN SuburbNames THEN SuburbNames[suburbText]
    ELSE IF \E known \in DOMAIN SuburbNames : known \o <<" ">> \o known = suburbText
         THEN SuburbNames[CHOOSE known \in DOMAIN SuburbNames :
                              known \o <<" ">> \o known = suburbText]
         ELSE suburbText

\* the address with the suburb appended (scraper.ts:193-194)
addressOf(streetAddress, suburbName) ==
    trim(streetAddress \o (IF streetAddress = <<>> THEN <<>> ELSE <<",", " ">>) \o suburbName)

\* isInvalid with a slip: the test for an empty address left out
isInvalidNoAddress(applicationNumberElement, address) ==
    \/ applicationNumberElement = undefined
    \/ trim(applicationNumberElement[1].text) = <<>>

\* the condition of the second continue (scraper.ts:198)
isInvalid(applicationNumberElement, address) ==
    \/ applicationNumberElement = undefined
    \/ trim(applicationNumberElement[1].text) = <<>>
    \/ address = <<>>

\* what evaluating an expression that throws a TypeError leaves: no text
TypeError == <<"TypeError">>

\* the record's description (scraper.ts:207-209): undefined !== null holds, so an
\* undefined descriptionElement has its text read, which throws
descriptionOf(descriptionElement) ==
    IF descriptionElement = undefined THEN TypeError
    ELSE IF trim(descriptionElement[1].text) # <<>>
         THEN trim(descriptionElement[1].text)
         ELSE NoDescriptionProvided

\* applicationNumberOf with a slip: the text is trimmed and nothing more
applicationNumberTrimmed(applicationNumberElement) ==
    trim(applicationNumberElement[1].text)

\* the record's applicationNumber (scraper.ts:212)
applicationNumberOf(applicationNumberElement) ==
    removeWhitespace(trim(applicationNumberElement[1].text))

\* one iteration of the page loop on the page's elements (scraper.ts:161-221):
\* the locals it leaves, how it ends (outcome) and the record it builds
parsePage(elems) ==
    LET applicationNumberElement == findClosestElement(elems, ApplicationNo, Right)
        descriptionElement == findClosestElement(elems, DevelopmentDescription, Down)
        receivedDateElement == findClosestElement(elems, ApplicationReceived, Right)
        houseNumberElement == findClosestElement(elems, PropertyHouseNo, Right)
        streetElement == findClosestElement(elems, PropertyStreet, Right)
        suburbElement == findClosestElement(elems, PropertySuburb, Right)
        streetAddress == streetAddressOf(houseNumberElement, streetElement)
        found == [applicationNumberElement |-> applicationNumberElement,
                  descriptionElement |-> descriptionElement,
                  receivedDateElement |-> receivedDateElement,
                  houseNumberElement |-> houseNumberElement,
                  streetElement |-> streetElement,
                  suburbElement |-> suburbElement]
        none == <<>>
    IN  IF hasNoSuburb(suburbElement)
        THEN [found |-> found, outcome |-> "noSuburb", streetAddress |-> streetAddress,
              suburbText |-> none, suburbName |-> none, address |-> streetAddress,
              developmentApplication |-> none]
        ELSE
        LET suburbText == normalizeText(suburbElement[1].text)
            suburbName == suburbNameOf(suburbText)
            address == addressOf(streetAddress, suburbName)
        IN  IF isInvalid(applicationNumberElement, address)
            THEN [found |-> found, outcome |-> "invalid", streetAddress |-> streetAddress,
                  suburbText |-> suburbText, suburbName |-> suburbName,
                  address |-> address, developmentApplication |-> none]
            ELSE
            LET description == descriptionOf(descriptionElement)
            IN  IF description = TypeError
                THEN [found |-> found, outcome |-> "throw", streetAddress |-> streetAddress,
                      suburbText |-> suburbText, suburbName |-> suburbName,
                      address |-> address, developmentApplication |-> none]
                ELSE [found |-> found, outcome |-> "push", streetAddress |-> streetAddress,
                      suburbText |-> suburbText, suburbName |-> suburbName,
                      address |-> address,
                      developmentApplication |->
                          << [applicationNumber |->
                                  applicationNumberOf(applicationNumberElement),
                              address |-> address,
                              description |-> description,
                              informationUrl |-> Url,
                              commentUrl |-> CommentUrl,
                              scrapeDate |-> ScrapeDate,
                              receivedDate |-> receivedDateOf(receivedDateElement)] >>]

\* ------------------------------------------------------------ findClosestElement alone

\* the bounding boxes the fragments are drawn from: x, y, width, height
FindBoxes ==
    { <<0, 0, 5, 2>>,    \* a label
      <<5, 0, 5, 2>>,    \* touching it on the right, same band
      <<4, 1, 5, 2>>,    \* right of it within the 20% tolerance, half below it
      <<3, 0, 0, 2>>,    \* zero width, left of the 20% tolerance
      <<0, 2, 5, 2>>,    \* touching it below
      <<0, 1, 5, 0>> }   \* zero height, at the 50% tolerance

\* the texts the fragments are drawn from: "Ap", " aP1", "1Ap"
FindTexts == { <<"A", "p">>, <<" ", "a", "P", "1">>, <<"1", "A", "p">> }

\* the labels looked for: "Ap", "1"
FindLabels == { <<"A", "p">>, <<"1">> }

FindElements ==
    { [text |-> t, x |-> b[1], y |-> b[2], width |-> b[3], height |-> b[4]] :
          t \in FindTexts, b \in FindBoxes }

\* before an iteration has run
NoLocals == [outcome |-> "none"]

InitFind ==
    /\ elements \in UNION { [1..n -> FindElements] : n \in 0..MaxElements }
    /\ text = <<>>
    /\ direction = Right
    /\ matchingElement = undefined
    /\ result = undefined
    /\ numPages = 0
    /\ index = 0
    /\ developmentApplications = <<>>
    /\ locals = NoLocals
    /\ distance = 0
    /\ database = {}
    /\ row = <<>>
    /\ before = {}
    /\ pdfUrls = <<>>
    /\ selectedPdfUrls = <<>>
    /\ document = 0
    /\ application = 0
    /\ trace = <<>>
    /\ pc = "call"

\* FindClosest with a slip: the texts of the elements are trimmed in place
FindClosestTrimsInPlace ==
    /\ pc \in {"call", "found"}
    /\ elements' = [i \in 1..Len(elements) |-> [elements[i] EXCEPT !.text = trim(@)]]
    /\ \E label \in FindLabels, dir \in Direction :
          /\ text' = label
          /\ direction' = dir
          /\ matchingElement' = findMatching(elements', label)
          /\ result' = findClosestElement(elements', label, dir)
    /\ pc' = "found"
    /\ UNCHANGED <<otherVars, numPages, index, developmentApplications, locals>>

\* one call of findClosestElement(elements, label, dir)
FindClosest ==
    /\ pc \in {"call", "found"}
    /\ \E label \in FindLabels, dir \in Direction :
          /\ text' = label
          /\ direction' = dir
          /\ matchingElement' = findMatching(elements, label)
          /\ result' = findClosestElement(elements, label, dir)
    /\ pc' = "found"
    /\ UNCHANGED <<otherVars, elements, numPages, index, developmentApplications, locals>>

NextFind == FindClosest

SpecFind == InitFind /\ [][NextFind]_vars

\* ------------------------------------------------------------ parsePdf: the pages

\* what a page holds of one field: its label or not, and the value beside it or not
NoLabel == [label |-> FALSE, value |-> <<>>]

LabelOnly == [label |-> TRUE, value |-> <<>>]

Value(v) == [label |-> TRUE, value |-> <<v>>]

\* a fragment of the page: every fragment is 5 wide and 2 high
Fragment(t, x, y) == [text |-> t, x |-> x, y |-> y, width |-> 5, height |-> 2]

\* a label at the left of row y and its value right of it
RowRight(label, option, y) ==
    (IF option.label THEN <<Fragment(label, 0, y)>> ELSE <<>>) \o
    (IF option.value # <<>> THEN <<Fragment(option.value[1], 6, y)>> ELSE <<>>)

\* a label at the left of row y and its value below it
RowDown(label, option, y) ==
    (IF option.label THEN <<Fragment(label, 0, y)>> ELSE <<>>) \o
    (IF option.value # <<>> THEN <<Fragment(option.value[1], 0, y + 2)>> ELSE <<>>)

\* the fragments of a page, in the order the decoding layer gives them
PageOf(o) ==
    RowRight(ApplicationNo, o.appNo, 0) \o
    RowDown(DevelopmentDescription, o.desc, 4) \o
    RowRight(ApplicationReceived, o.date, 8) \o
    RowRight(PropertyHouseNo, o.house, 12) \o
    RowRight(PropertyStreet, o.street, 16) \o
    RowRight(PropertySuburb, o.suburb, 20)

\* " 1 2"
GoodAppNo == Value(<<" ", "1", " ", "2">>)

\* " S "
GoodDesc == Value(<<" ", "S", " ">>)

\* "1/02/2019"
GoodDate == Value(<<"1", "/", "0", "2", "/", "2", "0", "1", "9">>)

\* "12"
GoodHouse == Value(<<"1", "2">>)

\* "M  R"
GoodStreet == Value(<<"M", " ", " ", "R">>)

\* "K"
GoodSuburb == Value(<<"K">>)

AppNoOptions == { NoLabel, Value(<<" ">>), GoodAppNo }

DescOptions == { NoLabel, LabelOnly, Value(<<" ">>), GoodDesc }

\* "1/2/2019" has a one-digit month, "31/02/2019" is no day of the calendar
DateOptions ==
    { NoLabel, GoodDate,
      Value(<<"1", "/", "2", "/", "2", "0", "1", "9">>),
      Value(<<"3", "1", "/", "0", "2", "/", "2", "0", "1", "9">>) }

HouseOptions == { NoLabel, Value(<<" ">>), GoodHouse }

StreetOptions == { NoLabel, Value(<<" ">>), GoodStreet }

\* "0", " ", the one-character mojibake alone, "K", "K" twice around a space and
\* the two-character mojibake, "G G", "M"
SuburbOptions ==
    { NoLabel, Value(<<"0">>), Value(<<" ">>), Value(<<"u:">>), GoodSuburb,
      Value(<<"K", " ", "A~", "1/4", "K">>), Value(<<"G", " ", "G">>), Value(<<"M">>) }

\* pages that differ in the address fields
AddressPages ==
    { PageOf([appNo |-> GoodAppNo, desc |-> GoodDesc, date |-> GoodDate,
              house |-> h, street |-> st, suburb |-> su]) :
          h \in HouseOptions, st \in StreetOptions, su \in SuburbOptions }

\* pages that differ in application number, description, received date and in
\* whether the suburb passes the first gate
GatePages ==
    { PageOf([appNo |-> a, desc |-> d, date |-> r,
              house |-> GoodHouse, street |-> GoodStreet, suburb |-> su]) :
          a \in AppNoOptions, d \in DescOptions, r \in DateOptions,
          su \in { NoLabel, Value(<<"0">>), GoodSuburb } }

\* pages without a usable suburb, whatever the other fields hold
NoSuburbPages ==
    { PageOf([appNo |-> a, desc |-> d, date |-> r,
              house |-> h, street |-> st, suburb |-> su]) :
          a \in AppNoOptions, d \in DescOptions, r \in DateOptions,
          h \in HouseOptions, st \in StreetOptions,
          su \in { NoLabel, Value(<<"0">>), Value(<<" ">>) } }

Pages == AddressPages \cup GatePages \cup NoSuburbPages

\* ------------------------------------------------------------ parsePdf: the page loop

Init ==
    /\ elements = <<>>
    /\ text = <<>>
    /\ direction = Right
    /\ matchingElement = undefined
    /\ result = undefined
    /\ numPages \in 0..MaxPages
    /\ index = 0
    /\ developmentApplications = <<>>
    /\ locals = NoLocals
    /\ distance = 0
    /\ database = {}
    /\ row = <<>>
    /\ before = {}
    /\ pdfUrls = <<>>
    /\ selectedPdfUrls = <<>>
    /\ document = 0
    /\ application = 0
    /\ trace = <<>>
    /\ pc = "page"

\* pdf.getPage, getTextContent and the map to elements (scraper.ts:146-156)
GetPage ==
    /\ pc = "page"
    /\ index < numPages
    /\ \E page \in Pages : elements' = page
    /\ locals' = NoLocals
    /\ pc' = "parse"
    /\ UNCHANGED <<otherVars, text, direction, matchingElement, result, numPages, index,
                   developmentApplications>>

\* the loop body's effect on each page, computed once
parsedPages == [page \in Pages |-> parsePage(page)]

\* the rest of the loop body (scraper.ts:161-221): a continue, a push or a throw
ParsePage ==
    /\ pc = "parse"
    /\ locals' = parsedPages[elements]
    /\ pc' = IF locals'.outcome = "throw" THEN "thrown" ELSE "next"
    /\ developmentApplications' =
          IF locals'.outcome = "push"
          THEN developmentApplications \o locals'.developmentApplication
          ELSE developmentApplications
    /\ UNCHANGED <<otherVars, elements, text, direction, matchingElement, result, numPages, index>>

\* index++ (scraper.ts:146): the iteration's locals go out of scope
NextPage ==
    /\ pc = "next"
    /\ index' = index + 1
    /\ elements' = <<>>
    /\ locals' = NoLocals
    /\ pc' = "page"
    /\ UNCHANGED <<otherVars, text, direction, matchingElement, result, numPages,
                   developmentApplications>>

\* return developmentApplications (scraper.ts:224)
Return ==
    /\ pc = "page"
    /\ index = numPages
    /\ pc' = "returned"
    /\ UNCHANGED <<otherVars, elements, text, direction, matchingElement, result, numPages, index,
                   developmentApplications, locals>>

Next == GetPage \/ ParsePage \/ NextPage \/ Return

Spec == Init /\ [][Next]_vars

\* ------------------------------------------------------------ insertRow

\* the development applications handed to insertRow: three application numbers,
\* two addresses, two descriptions
StoreApplications ==
    { [applicationNumber |-> n, address |-> a, description |-> d,
       informationUrl |-> Url, commentUrl |-> CommentUrl,
       scrapeDate |-> ScrapeDate, receivedDate |-> <<>>] :
          n \in { <<"1">>, <<"2">>, <<"3">> },
          a \in { <<"K">>, <<"M">> },
          d \in { <<"S">>, NoDescriptionProvided } }

\* the seven values bound to the statement, by column of table data
\* (scraper.ts:37, 49-56)
valuesOf(developmentApplication) ==
    [council_reference |-> developmentApplication.applicationNumber,
     address |-> developmentApplication.address,
     description |-> developmentApplication.description,
     info_url |-> developmentApplication.informationUrl,
     comment_url |-> developmentApplication.commentUrl,
     date_scraped |-> developmentApplication.scrapeDate,
     date_received |-> developmentApplication.receivedDate]

\* insertOrReplace with a slip: a plain insert into a table without its key
insertPlain(rows, values) == rows \cup {values}

\* "insert or replace into [data]" with council_reference the primary key: the
\* row that holds the key is deleted, then the values are inserted
insertOrReplace(rows, values) ==
    { r \in rows : r.council_reference # values.council_reference } \cup {values}

\* table data as initializeDatabase leaves it on the first run: no row
InitStore ==
    /\ elements = <<>>
    /\ text = <<>>
    /\ direction = Right
    /\ matchingElement = undefined
    /\ result = undefined
    /\ numPages = 0
    /\ index = 0
    /\ developmentApplications = <<>>
    /\ locals = NoLocals
    /\ distance = 0
    /\ database = {}
    /\ row = <<>>
    /\ before = {}
    /\ pdfUrls = <<>>
    /\ selectedPdfUrls = <<>>
    /\ document = 0
    /\ application = 0
    /\ trace = <<>>
    /\ pc = "store"

\* one call of insertRow(database, developmentApplication) that the statement
\* runs without error (scraper.ts:46-68)
InsertRow ==
    /\ pc \in {"store", "inserted"}
    /\ \E developmentApplication \in StoreApplications :
          /\ row' = valuesOf(developmentApplication)
          /\ database' = insertOrReplace(database, valuesOf(developmentApplication))
    /\ before' = database
    /\ pc' = "inserted"
    /\ UNCHANGED <<elements, text, direction, matchingElement, result, numPages, index,
                   developmentApplications, locals, distance, mainVars>>

NextStore == InsertRow

SpecStore == InitStore /\ [][NextStore]_vars

\* ------------------------------------------------------------ calculateDistance alone

\* the first elements of the measured pairs
DistanceFirst ==
    { [text |-> <<"A", "p">>, x |-> x, y |-> y, width |-> w, height |-> h] :
        x \in {0, 1}, y \in {0, 1}, w \in {0, 1, 5}, h \in {0, 2, 3} }

\* the second elements of the measured pairs
DistanceSecond ==
    { [text |-> <<"1">>, x |-> x, y |-> y, width |-> w, height |-> h] :
        x \in 0..8, y \in 0..5, w \in {0, 1, 5}, h \in {0, 2, 3} }

InitDistance ==
    /\ elements \in { <<element1, element2>> :
                        element1 \in DistanceFirst, element2 \in DistanceSecond }
    /\ text = <<>>
    /\ direction = Right
    /\ matchingElement = undefined
    /\ result = undefined
    /\ numPages = 0
    /\ index = 0
    /\ developmentApplications = <<>>
    /\ locals = NoLocals
    /\ distance = 0
    /\ database = {}
    /\ row = <<>>
    /\ before = {}
    /\ pdfUrls = <<>>
    /\ selectedPdfUrls = <<>>
    /\ document = 0
    /\ application = 0
    /\ trace = <<>>
    /\ pc = "pair"

\* one call of calculateDistance(element1, element2, direction)
CalcDistance ==
    /\ pc \in {"pair", "measured"}
    /\ \E dir \in Direction :
          /\ direction' = dir
          /\ distance' = calculateDistance(elements[1], elements[2], dir)
    /\ pc' = "measured"
    /\ UNCHANGED <<elements, text, matchingElement, result, numPages, index,
                   developmentApplications, locals, database, row, before, mainVars>>

NextDistance == CalcDistance

SpecDistance == InitDistance /\ [][NextDistance]_vars

\* ------------------------------------------------------------ main

\* DevelopmentApplicationsUrl without its last segment, what a relative href is
\* resolved against (scraper.ts:19, 262)
BaseUrl == "https://www.alexandrina.sa.gov.au/loose-pages/"

\* the href attributes of the page's links, each a sequence of pieces: two
\* spellings of one document, two more documents and an upper case extension
Hrefs ==
    { <<"a", ".pdf">>, <<"./", "a", ".pdf">>, <<"b", ".pdf">>, <<"c", ".pdf">>,
      <<"d", ".PDF">> }

\* the selector a[href$='.pdf'] (scraper.ts:261)
hrefEndsWithPdf(href) == href[Len(href)] = ".pdf"

\* new urlparser.URL(href, DevelopmentApplicationsUrl).href (scraper.ts:262)
hrefOf(href) == <<BaseUrl>> \o SelectSeq(href, LAMBDA piece : piece # "./")

\* toLowerCase on a piece of a URL
toLowerPiece(piece) == IF piece = ".PDF" THEN ".pdf" ELSE piece

\* pdfUrl.toLowerCase().includes(".pdf") (scraper.ts:263)
includesPdf(pdfUrl) ==
    \E i \in 1..Len(pdfUrl) : toLowerPiece(pdfUrl[i]) = ".pdf"

\* the loop over the links from link i on (scraper.ts:261-266)
RECURSIVE discoverFrom(_, _, _)
discoverFrom(anchors, urls, i) ==
    IF i > Len(anchors) THEN urls
    ELSE LET pdfUrl == hrefOf(anchors[i])
         IN  IF /\ hrefEndsWithPdf(anchors[i])
                /\ includesPdf(pdfUrl)
                /\ ~(\E k \in 1..Len(urls) : urls[k] = pdfUrl)
             THEN discoverFrom(anchors, Append(urls, pdfUrl), i + 1)
             ELSE discoverFrom(anchors, urls, i + 1)

\* Array.prototype.reverse
reverse(s) == [i \in 1..Len(s) |-> s[Len(s) + 1 - i]]

\* the records parsePdf may return for a document
MainApplications ==
    { r \in StoreApplications :
        /\ r.applicationNumber = <<"1">>
        /\ r.description = <<"S">> }

\* the lists parsePdf may return for a document
DocumentResults ==
    {<<>>} \cup { <<r>> : r \in MainApplications }
           \cup { <<r1, r2>> : r1 \in MainApplications, r2 \in MainApplications }

InitMain ==
    /\ elements = <<>>
    /\ text = <<>>
    /\ direction = Right
    /\ matchingElement = undefined
    /\ result = undefined
    /\ numPages = 0
    /\ index = 0
    /\ developmentApplications = <<>>
    /\ locals = NoLocals
    /\ distance = 0
    /\ database = {}
    /\ row = <<>>
    /\ before = {}
    /\ pdfUrls = <<>>
    /\ selectedPdfUrls = <<>>
    /\ document = 0
    /\ application = 0
    /\ trace = <<>>
    /\ pc = "main"

\* the variables main leaves alone
mainFrame ==
    <<elements, text, direction, matchingElement, result, numPages, index, locals,
      distance, row, before>>

\* the links of the page are gathered; main returns if there is none
\* (scraper.ts:260-271)
Discover ==
    /\ pc = "main"
    /\ \E n \in 0..MaxLinks : \E anchors \in [1..n -> Hrefs] :
          /\ pdfUrls' = discoverFrom(anchors, <<>>, 1)
          /\ trace' = <<[op |-> "discovered", pdfUrls |-> pdfUrls']>>
          /\ pc' = IF Len(pdfUrls') = 0 THEN "done" ELSE "select"
    /\ UNCHANGED <<mainFrame, developmentApplications, database, selectedPdfUrls,
                   document, application>>

\* the first link and one other are selected, in either order (scraper.ts:277-282)
Select ==
    /\ pc = "select"
    /\ pdfUrls' = Tail(pdfUrls)
    /\ \E reversed \in BOOLEAN :
          LET chosen ==
                  IF Len(pdfUrls') > 0
                  THEN { <<Head(pdfUrls), pdfUrls'[k]>> : k \in 1..Len(pdfUrls') }
                  ELSE { <<Head(pdfUrls)>> }
          IN  \E selected \in chosen :
                 selectedPdfUrls' = IF reversed THEN reverse(selected) ELSE selected
    /\ document' = 1
    /\ pc' = "document"
    /\ UNCHANGED <<mainFrame, developmentApplications, database, application, trace>>

\* parsePdf returns the records of the document at hand (scraper.ts:284-286)
ParseDocument ==
    /\ pc = "document"
    /\ document <= Len(selectedPdfUrls)
    /\ \E returned \in DocumentResults :
          developmentApplications' = returned
    /\ trace' = Append(trace, [op |-> "parsed", pdfUrl |-> selectedPdfUrls[document]])
    /\ application' = 1
    /\ pc' = "insert"
    /\ UNCHANGED <<mainFrame, database, pdfUrls, selectedPdfUrls, document>>

\* parsePdf throws on the document at hand and main's promise is rejected
\* (scraper.ts:286, 208, 300)
ParseDocumentThrows ==
    /\ pc = "document"
    /\ document <= Len(selectedPdfUrls)
    /\ trace' = Append(trace, [op |-> "threw", pdfUrl |-> selectedPdfUrls[document]])
    /\ pc' = "rejected"
    /\ UNCHANGED <<mainFrame, developmentApplications, database, pdfUrls,
                   selectedPdfUrls, document, application>>

\* one record of the document at hand is inserted (scraper.ts:295-296)
InsertApplication ==
    /\ pc = "insert"
    /\ application <= Len(developmentApplications)
    /\ database' = insertOrReplace(database, valuesOf(developmentApplications[application]))
    /\ trace' = Append(trace, [op |-> "inserted", pdfUrl |-> selectedPdfUrls[document]])
    /\ application' = application + 1
    /\ UNCHANGED <<mainFrame, developmentApplications, pdfUrls, selectedPdfUrls,
                   document, pc>>

\* the records of the document at hand are all inserted: on to the next document
NextDocument ==
    /\ pc = "insert"
    /\ application > Len(developmentApplications)
    /\ document' = document + 1
    /\ pc' = "document"
    /\ UNCHANGED <<mainFrame, developmentApplications, database, pdfUrls,
                   selectedPdfUrls, application, trace>>

\* the loop over the selected documents ends and main returns (scraper.ts:284, 297)
Complete ==
    /\ pc = "document"
    /\ document > Len(selectedPdfUrls)
    /\ pc' = "done"
    /\ UNCHANGED <<mainFrame, developmentApplications, database, mainVars>>

NextMain ==
    \/ Discover
    \/ Select
    \/ ParseDocument
    \/ ParseDocumentThrows
    \/ InsertApplication
    \/ NextDocument
    \/ Complete

SpecMain == InitMain /\ [][NextMain]_vars

\* ------------------------------------------------------------ claims on findClosestElement

\* the fragments of the list that pass isOverlap with the anchor
Overlapping(anchor) ==
    { i \in 1..Len(elements) : isOverlap(anchor, elements[i], direction) }

\* C3: findClosestElement returns undefined whenever the anchor is found but no
\* fragment passing isOverlap with it has a calculateDistance other than the
\* rejection sentinel; any fragment it returns has a distance below the sentinel.
C3_NoRejectedResult ==
    (pc = "found" /\ matchingElement # undefined) =>
        /\ (\A i \in Overlapping(matchingElement[1]) :
                calculateDistance(matchingElement[1], elements[i], direction) >= MAX_VALUE)
            => result = undefined
        /\ result # undefined =>
              calculateDistance(matchingElement[1], result[1], direction) < MAX_VALUE

\* whether fragment i's text, trimmed and case-folded, starts with the folded label
IsLabel(i) ==
    \E lead \in 0..Len(elements[i].text) :
        /\ \A k \in 1..lead : elements[i].text[k] \in WhiteSpace
        /\ lead < Len(elements[i].text) => elements[i].text[lead + 1] \notin WhiteSpace
        /\ lead + Len(text) <= Len(elements[i].text)
        /\ \A k \in 1..Len(text) :
              toLowerChar(elements[i].text[lead + k]) = toLowerChar(text[k])

\* C4: the anchor is the first fragment in input order whose trimmed, case-folded
\* text starts with the case-folded label; with no such fragment the anchor and
\* the result are undefined, for either direction and also for the empty list.
C4_AnchorIsFirstMatch ==
    pc = "found" =>
        IF \E i \in 1..Len(elements) : IsLabel(i)
        THEN \E i \in 1..Len(elements) :
                /\ IsLabel(i)
                /\ \A j \in 1..(i - 1) : ~IsLabel(j)
                /\ matchingElement = Some(elements[i])
        ELSE matchingElement = undefined /\ result = undefined

\* C4 witness: the anchor is not the first fragment, its text matches only after
\* trimming and case folding, and a later fragment with another box matches too.
C4_Witness ==
    /\ pc = "found"
    /\ Len(elements) = 3
    /\ ~IsLabel(1) /\ IsLabel(2) /\ IsLabel(3)
    /\ ~startsWith(elements[2].text, text)
    /\ elements[2].x # elements[3].x
    /\ matchingElement = Some(elements[2])

\* C5: a returned fragment passes isOverlap with the anchor, no fragment passing
\* isOverlap is strictly closer, and among those at the same distance it is the
\* first in input order.
C5_ClosestFirstMinimum ==
    (pc = "found" /\ result # undefined) =>
        LET a == matchingElement[1]
            d(i) == calculateDistance(a, elements[i], direction)
        IN  \E i \in Overlapping(a) :
                /\ result = Some(elements[i])
                /\ \A j \in Overlapping(a) : d(j) >= d(i)
                /\ \A j \in Overlapping(a) : j < i => d(j) > d(i)

\* C5 witness: two different fragments tie at the least distance, which is not
\* the sentinel, a third one is farther, and the first of the two is returned.
C5_Witness ==
    /\ pc = "found"
    /\ Len(elements) = 3
    /\ result = Some(elements[2])
    /\ elements[3] # elements[2]
    /\ {2, 3} \subseteq Overlapping(matchingElement[1])
    /\ calculateDistance(matchingElement[1], elements[3], direction)
          = calculateDistance(matchingElement[1], elements[2], direction)
    /\ calculateDistance(matchingElement[1], elements[2], direction) < MAX_VALUE
    /\ 1 \in Overlapping(matchingElement[1])
    /\ calculateDistance(matchingElement[1], elements[1], direction)
          > calculateDistance(matchingElement[1], elements[2], direction)

\* ------------------------------------------------------------ claims on parsePdf

\* an iteration of the page loop has just run on elements and left locals
Parsed == pc \in {"next", "thrown"}

\* whether every character of s is whitespace (s is empty after trim)
IsBlank(s) == \A k \in 1..Len(s) : s[k] \in WhiteSpace

\* C1: every record of the output has a non-empty applicationNumber and a
\* non-empty address; a page whose application-number fragment is absent or
\* blank, or whose assembled address is empty, gives no record and no error.
C1_RecordsHaveNumberAndAddress ==
    /\ \A i \in 1..Len(developmentApplications) :
          /\ developmentApplications[i].applicationNumber # <<>>
          /\ developmentApplications[i].address # <<>>
    /\ (Parsed /\ (\/ locals.found.applicationNumberElement = undefined
                   \/ IsBlank(locals.found.applicationNumberElement[1].text)
                   \/ locals.address = <<>>))
          => /\ pc = "next"
             /\ locals.outcome \in {"noSuburb", "invalid"}
             /\ locals.developmentApplication = <<>>

\* C1 witness: after a page that gave a record, a page with an application
\* number and a usable suburb fragment is dropped for its empty address.
C1_Witness ==
    /\ pc = "next"
    /\ Len(developmentApplications) = 1
    /\ index = 1
    /\ locals.outcome = "invalid"
    /\ locals.found.applicationNumberElement # undefined
    /\ ~IsBlank(locals.found.applicationNumberElement[1].text)
    /\ locals.found.suburbElement # undefined
    /\ locals.address = <<>>

\* C2: no page content makes the page loop abort: every page is turned into a
\* record or skipped, and parsePdf never throws.
C2_NeverThrows ==
    /\ pc # "thrown"
    /\ Parsed => locals.outcome \in {"push", "noSuburb", "invalid"}

\* C6: a page whose suburb fragment is absent, blank or "0" gives no record,
\* whatever its other fragments hold.
C6_NoSuburbNoRecord ==
    (Parsed /\ (\/ locals.found.suburbElement = undefined
                \/ IsBlank(locals.found.suburbElement[1].text)
                \/ SelectSeq(locals.found.suburbElement[1].text,
                             LAMBDA c : c \notin WhiteSpace) = <<"0">>))
        => /\ pc = "next"
           /\ locals.outcome = "noSuburb"
           /\ locals.developmentApplication = <<>>

\* C6 witness: a page whose suburb fragment reads "0" is dropped although its
\* application number, description, date, house number and street are all there.
C6_Witness ==
    /\ pc = "next"
    /\ locals.outcome = "noSuburb"
    /\ locals.found.suburbElement # undefined
    /\ locals.found.suburbElement[1].text = <<"0">>
    /\ locals.found.applicationNumberElement # undefined
    /\ ~IsBlank(locals.found.applicationNumberElement[1].text)
    /\ locals.found.descriptionElement # undefined
    /\ locals.found.receivedDateElement # undefined
    /\ locals.found.houseNumberElement # undefined
    /\ locals.found.streetElement # undefined
    /\ locals.streetAddress # <<>>

\* the page passed both validity gates
PassedGates == Parsed /\ locals.outcome \notin {"noSuburb", "invalid"}

\* C7: on a page that passes both gates the record's description is
\* "NO DESCRIPTION PROVIDED" when the description fragment is absent or blank,
\* and the fragment's trimmed text otherwise.
C7_DescriptionDefaults ==
    PassedGates =>
        /\ locals.outcome = "push"
        /\ locals.developmentApplication[1].description =
              IF \/ locals.found.descriptionElement = undefined
                 \/ IsBlank(locals.found.descriptionElement[1].text)
              THEN NoDescriptionProvided
              ELSE trim(locals.found.descriptionElement[1].text)

\* C8: on a page that passes both gates a record is emitted whatever the
\* received-date fragment holds; its receivedDate is a string, empty when the
\* fragment is absent or its text is no strict D/MM/YYYY date.
C8_DateNeverSkips ==
    PassedGates =>
        /\ locals.outcome = "push"
        /\ locals.developmentApplication[1].receivedDate \in Seq(STRING)
        /\ (\/ locals.found.receivedDateElement = undefined
            \/ ~isValidDate(trim(locals.found.receivedDateElement[1].text)))
              => locals.developmentApplication[1].receivedDate = <<>>

\* the suburb was enriched: the page passed the first gate
Enriched == Parsed /\ locals.outcome # "noSuburb"

\* whether s ends with suffix
EndsWith(s, suffix) ==
    /\ Len(suffix) <= Len(s)
    /\ \A k \in 1..Len(suffix) : s[Len(s) - Len(suffix) + k] = suffix[k]

\* C9: the enriched suburb is the table's value for the suburb text when the
\* text is a key; otherwise the value of the key k with k + " " + k equal to the
\* text, when there is one; otherwise the text itself; and it ends the address.
C9_SuburbEnrichmentOrder ==
    Enriched =>
        LET t == locals.suburbText
            doubled == { k \in DOMAIN SuburbNames : k \o <<" ">> \o k = t }
        IN  /\ t \in DOMAIN SuburbNames => locals.suburbName = SuburbNames[t]
            /\ (t \notin DOMAIN SuburbNames /\ doubled # {})
                  => \E k \in doubled : locals.suburbName = SuburbNames[k]
            /\ (t \notin DOMAIN SuburbNames /\ doubled = {}) => locals.suburbName = t
            /\ EndsWith(locals.address, locals.suburbName)

\* C9 witness: the suburb text "K K", no key itself, takes the value of key "K"
\* in an emitted record.
C9_Witness ==
    /\ pc = "next"
    /\ locals.outcome = "push"
    /\ locals.suburbText = <<"K", " ", "K">>
    /\ locals.suburbText \notin DOMAIN SuburbNames
    /\ locals.suburbName = <<"K", " ", "S">>
    /\ EndsWith(developmentApplications[Len(developmentApplications)].address,
                <<"K", " ", "S">>)

\* the normalized text of an optional fragment, empty when it is absent
PartOf(element) == IF element = undefined THEN <<>> ELSE normalizeText(element[1].text)

\* C10: the address is the non-empty parts among normalized house number and
\* normalized street joined by one space, then the enriched suburb, with ", "
\* between them exactly when the street address is non-empty (and trimmed).
C10_AddressAssembly ==
    Enriched =>
        LET house == PartOf(locals.found.houseNumberElement)
            street == PartOf(locals.found.streetElement)
            streetAddress ==
                IF house = <<>> THEN street
                ELSE IF street = <<>> THEN house
                ELSE house \o <<" ">> \o street
        IN  locals.address =
                trim(IF streetAddress = <<>> THEN locals.suburbName
                     ELSE streetAddress \o <<",", " ">> \o locals.suburbName)

\* C11: every extracted value gets the same normalization (both mojibake
\* sequences to a space, whitespace runs to one space, trim) before it is used
\* in a validity gate or placed in the record.
C11_SameNormalization ==
    Parsed =>
        /\ (PartOf(locals.found.suburbElement) \in { <<>>, <<"0">> })
              => locals.outcome \in {"noSuburb", "invalid"}
        /\ (PartOf(locals.found.applicationNumberElement) = <<>>)
              => locals.outcome \in {"noSuburb", "invalid"}
        /\ locals.outcome = "push" =>
              /\ locals.developmentApplication[1].applicationNumber =
                    removeWhitespace(PartOf(locals.found.applicationNumberElement))
              /\ locals.developmentApplication[1].description =
                    IF PartOf(locals.found.descriptionElement) = <<>>
                    THEN NoDescriptionProvided
                    ELSE PartOf(locals.found.descriptionElement)
              /\ locals.developmentApplication[1].receivedDate =
                    IF isValidDate(PartOf(locals.found.receivedDateElement))
                    THEN formatDate(PartOf(locals.found.receivedDateElement))
                    ELSE <<>>

\* C12: each page of the document gets zero or one record, appended in page
\* order, and what a page gives depends on its own fragments only: no page
\* loses its record, or is left unread, because of another page.
C12_PagesIndependent ==
    /\ Len(developmentApplications) <= index + (IF pc = "next" THEN 1 ELSE 0)
    /\ (pc = "next" /\ locals.outcome = "push") =>
          developmentApplications[Len(developmentApplications)]
              = locals.developmentApplication[1]
    /\ pc = "returned" => index = numPages
    /\ pc = "thrown" => (developmentApplications = <<>> /\ index + 1 = numPages)

\* ------------------------------------------------------------ claims on insertRow

C18_ExistingRowKept ==
    pc = "inserted" =>
        \A r \in before : r.council_reference = row.council_reference => r \in database

\* ------------------------------------------------------------ more claims on findClosestElement

IsAnchor(i) == IsLabel(i) /\ \A j \in 1..(i - 1) : ~IsLabel(j)

\* C19: findClosestElement never returns the anchor itself: a returned fragment
\* is a fragment of the list other than the anchor.
C19_NeverReturnsAnchor ==
    (pc = "found" /\ result # undefined) =>
        \E i \in 1..Len(elements) : elements[i] = result[1] /\ ~IsAnchor(i)

\* ------------------------------------------------------------ claims on calculateDistance

\* the second element lies at or beyond the right edge of the first and in its band
RightOfInBand(a, b) ==
    /\ b.x >= a.x + a.width
    /\ b.y < a.y + a.height
    /\ b.y + b.height > a.y

\* the second elements that differ from b by a larger x only
FartherRight(b) ==
    { c \in DistanceSecond :
        c.x > b.x /\ c.y = b.y /\ c.width = b.width /\ c.height = b.height }

\* C15: for a pair whose second element has its left edge at or beyond the first
\* one's right edge and lies in the first one's band, calculateDistance to the
\* Right is not the rejection sentinel, and it is strictly less than the distance
\* to the same element moved farther right.
C15_RightDistanceIncreases ==
    (pc = "measured" /\ direction = Right /\ RightOfInBand(elements[1], elements[2])) =>
        /\ distance < MAX_VALUE
        /\ \A c \in FartherRight(elements[2]) :
              /\ calculateDistance(elements[1], c, Right) < MAX_VALUE
              /\ distance < calculateDistance(elements[1], c, Right)

\* C15 witness: a measured pair with a gap, a vertical offset and farther places.
C15_Witness ==
    /\ pc = "measured"
    /\ direction = Right
    /\ RightOfInBand(elements[1], elements[2])
    /\ elements[2].x > elements[1].x + elements[1].width
    /\ 2 * elements[2].y + elements[2].height # 2 * elements[1].y + elements[1].height
    /\ FartherRight(elements[2]) # {}
    /\ distance > 0

\* the pairs the claim says are rejected, in tenths of a unit
Rejected(a, b, dir) ==
    IF dir = Right
    THEN 10 * b.x < 10 * a.x + 10 * a.width - 2 * a.width
    ELSE 10 * b.y < 10 * a.y + 10 * a.height - 5 * a.height

\* the two reference points of a direction, in halves of a unit
ReferencePoints(a, b, dir) ==
    IF dir = Right
    THEN << <<2 * a.x + 2 * a.width, 2 * a.y + a.height>>,
            <<2 * b.x, 2 * b.y + b.height>> >>
    ELSE << <<2 * a.x + a.width, 2 * a.y + 2 * a.height>>,
            <<IF a.width < 2 * b.width THEN 2 * b.x + a.width ELSE 2 * b.x + 2 * b.width,
              2 * b.y>> >>

\* the squared distance of two points
SquaredDistance(p, q) ==
    (q[1] - p[1]) * (q[1] - p[1]) + (q[2] - p[2]) * (q[2] - p[2])

\* C16: calculateDistance returns the sentinel exactly when, to the Right, the
\* second element's x is less than the first one's right edge less a fifth of its
\* width and, Down, the second element's y is less than the first one's bottom
\* edge less half its height; otherwise it returns the squared distance of the
\* direction's two reference points.
C16_RejectionAndDistance ==
    pc = "measured" =>
        LET a == elements[1]
            b == elements[2]
            points == ReferencePoints(a, b, direction)
        IN  /\ distance = MAX_VALUE <=> Rejected(a, b, direction)
            /\ ~Rejected(a, b, direction) =>
                  distance = SquaredDistance(points[1], points[2])

\* C16 witness: a pair measured Down whose second element is narrower than half
\* the first, at a place within the overlap factor, at a distance.
C16_Witness ==
    /\ pc = "measured"
    /\ direction = Down
    /\ 2 * elements[2].width < elements[1].width
    /\ elements[2].y < elements[1].y + elements[1].height
    /\ distance # MAX_VALUE
    /\ distance > 0

\* ------------------------------------------------------------ more claims on parsePdf

\* the characters of s that are not whitespace, in their order
RECURSIVE NonWhiteSpaceOf(_)
NonWhiteSpaceOf(s) ==
    IF s = <<>> THEN <<>>
    ELSE IF Head(s) \in WhiteSpace THEN NonWhiteSpaceOf(Tail(s))
    ELSE <<Head(s)>> \o NonWhiteSpaceOf(Tail(s))

\* C17: the applicationNumber of every record holds no whitespace character and is
\* not empty, and the record of a page is the application number fragment's text
\* without its leading, trailing and inner whitespace.
C17_NumberWithoutWhitespace ==
    /\ \A i \in 1..Len(developmentApplications) :
          /\ developmentApplications[i].applicationNumber # <<>>
          /\ \A k \in 1..Len(developmentApplications[i].applicationNumber) :
                developmentApplications[i].applicationNumber[k] \notin WhiteSpace
    /\ (Parsed /\ locals.outcome = "push") =>
          locals.developmentApplication[1].applicationNumber =
              NonWhiteSpaceOf(locals.found.applicationNumberElement[1].text)

\* C17 witness: a record made of a fragment with whitespace before and within the number.
C17_Witness ==
    /\ pc = "next"
    /\ locals.outcome = "push"
    /\ locals.found.applicationNumberElement[1].text = <<" ", "1", " ", "2">>
    /\ developmentApplications[Len(developmentApplications)].applicationNumber = <<"1", "2">>

\* C20: the address of every record has a suburb after the street address, so it
\* never ends with a comma, whatever the suburb fragment's text is made of.
C20_AddressHasSuburb ==
    /\ \A i \in 1..Len(developmentApplications) :
          ~EndsWith(developmentApplications[i].address, <<",">>)
    /\ (Parsed /\ locals.outcome = "push") =>
          /\ locals.suburbName # <<>>
          /\ EndsWith(locals.address, locals.suburbName)

\* ------------------------------------------------------------ claims on main

\* the places in trace where parsePdf was called
ParseSteps == { k \in 1..Len(trace) : trace[k].op \in {"parsed", "threw"} }

\* the documents main has handed to parsePdf so far
ParsedDocuments == { trace[k].pdfUrl : k \in ParseSteps }

\* the place in trace of the last call of parsePdf before place i, 0 if none
LastParse(i) ==
    CHOOSE k \in 0..(i - 1) :
        /\ k > 0 => k \in ParseSteps
        /\ \A j \in (k + 1)..(i - 1) : j \notin ParseSteps

\* C21: of a non-empty list of links main parses at most two documents, none
\* twice, and the first link's document is among them when main has ended; a
\* record is inserted after parsePdf has returned for its document and before
\* the next document is parsed.
C21_MainParsesAndInserts ==
    /\ Cardinality(ParsedDocuments) <= 2
    /\ \A i \in ParseSteps : \A j \in ParseSteps :
          i # j => trace[i].pdfUrl # trace[j].pdfUrl
    /\ (pc \in {"done", "rejected"} /\ Len(trace[1].pdfUrls) > 0) =>
          trace[1].pdfUrls[1] \in ParsedDocuments
    /\ \A i \in 1..Len(trace) :
          trace[i].op = "inserted" =>
              /\ LastParse(i) > 0
              /\ trace[LastParse(i)].op = "parsed"
              /\ trace[LastParse(i)].pdfUrl = trace[i].pdfUrl
    /\ pc = "document" =>
          Cardinality({ i \in 1..Len(trace) :
                          /\ trace[i].op = "inserted"
                          /\ LastParse(i) = LastParse(Len(trace) + 1) })
              = Len(developmentApplications)

====
